---- MODULE Spec2Model ----
\* Verification model of the statistics core of the Tractor stats dashboard:
\* the data loader and its cache, the result decoder, the player stat
\* aggregator, the teammate and opponent stats and the leaderboard builder
\* (src/src/stats.py).
EXTENDS Integers, Sequences, FiniteSets, TLC

VARIABLES
    cache,      \* _cache: [data, timestamp]                  (stats.py:8-12)
    now,        \* the wall clock read by datetime.now(), in minutes
    call,       \* the last completed call of load_data / clear_cache
    prev,       \* the call completed before `call`
    result,     \* argument of get_level_change_value
    decoded,    \* its return value
    df,         \* argument table of calculate_player_stats
    stats,      \* the last calculate_player_stats call and its return value
    interaction, \* the last calculate_teammate_opponent_stats calls
    player_stats_dict, \* argument of leaderboard_tables
    results     \* its return value

vars == <<cache, now, call, prev, result, decoded, df, stats, interaction,
          player_stats_dict, results>>

cacheVars  == <<cache, now, call, prev>>
decodeVars == <<result, decoded>>
statsVars  == <<df, stats>>
pairVars   == <<interaction>>
boardVars  == <<player_stats_dict, results>>

\* Python's None (a record, so that it compares with frames and stamps)
None == [none |-> TRUE]

\* a datetime, in minutes
Stamp(t) == [minute |-> t]

\* a missing cell or an undefined float
NaN == [nan |-> TRUE]

\* no call made yet
NotRun == [notrun |-> TRUE]

----------------------------------------------------------------------------
\* Data loader and cache                                   (stats.py:7-65)

MaxTime      == 5    \* the clock is observed on 0..MaxTime
MaxFetchTime == 1    \* a fetch takes 0..MaxFetchTime minutes
NumSheets    == 2    \* distinct contents the remote sheet can have

cache_duration == 5  \* timedelta(minutes=5)

GameCols == {"A1", "A2", "A3", "A4", "A5", "D1", "D2", "D3", "D4",
             "# decks", "Points", "Result"}

\* what pd.read_csv(URL) returns when it succeeds
Sheets == {[columns |-> GameCols, content |-> <<"sheet", i>>] : i \in 1..NumSheets}

\* str(e) of the exception pd.read_csv raises when it fails
Failures == {"URLError", "ParserError"}

\* pd.DataFrame({"Error": [str(e)]})
ErrorFrame(e) == [columns |-> {"Error"}, content |-> <<"error", e>>]

\* app.py: "Error" in df.columns
IsErrorMarker(frame) == "Error" \in frame.columns

EmptyCache == [data |-> None, timestamp |-> None]

NoCall == [op |-> "none"]

\* the condition under which load_data returns the cached table (lines 45-48)
\* (faulty variant: the cache is never trusted)
CacheValidNever(force_refresh, c, t) == FALSE

CacheValid(force_refresh, c, t) ==
    /\ ~force_refresh
    /\ c.data # None
    /\ c.timestamp # None
    /\ t - c.timestamp.minute < cache_duration

\* the cache after a successful fetch finishing at time t (lines 53-54)
\* (faulty variant: the timestamp is not refreshed)
StoreFetchedNoStamp(c, frame, t) == [data |-> frame, timestamp |-> c.timestamp]

StoreFetched(c, frame, t) == [data |-> frame, timestamp |-> Stamp(t)]

\* the cache after a failed fetch (lines 56-60 assign nothing)
\* (faulty variants: the entry is dropped; the Error frame is stored)
AfterFailureDrops(c) == EmptyCache

AfterFailureStoresError(c) ==
    IF c.data # None THEN c ELSE [data |-> ErrorFrame("URLError"), timestamp |-> c.timestamp]

AfterFailure(c) == c

\* the value returned after a failed fetch (lines 56-60)
FailureResult(c, e) ==
    IF c.data # None THEN c.data ELSE ErrorFrame(e)

\* the cache after clear_cache (lines 64-65)
\* (faulty variant: only the timestamp is reset)
ClearedKeepsData(c) == [data |-> c.data, timestamp |-> None]

Cleared(c) == [data |-> None, timestamp |-> None]

\* what is remembered of the call before the last one
Summary(c) ==
    IF c.op = "load"
    THEN [op |-> "load", force |-> c.force, at |-> c.at, fetched |-> c.fetched, ok |-> c.ok]
    ELSE c

\* a completed load_data call: its argument, the clock and the cache when it
\* started, whether it called pd.read_csv, what that raised ("" when nothing)
\* and the value returned
LoadRecord(force, fetched, raised, ret) ==
    [op |-> "load", force |-> force, at |-> now, pre |-> cache,
     fetched |-> fetched, ok |-> fetched /\ raised = "", raised |-> raised,
     ret |-> ret]

\* load_data served from the cache (lines 45-48)
LoadCached(force_refresh) ==
    /\ CacheValid(force_refresh, cache, now)
    /\ call' = LoadRecord(force_refresh, FALSE, "", cache.data)
    /\ prev' = Summary(call)
    /\ UNCHANGED <<cache, now>>

\* load_data fetching, pd.read_csv succeeds (lines 51-55)
LoadFetchOk(force_refresh) ==
    /\ ~CacheValid(force_refresh, cache, now)
    /\ \E d \in 0..MaxFetchTime, sheet \in Sheets :
        /\ now + d <= MaxTime
        /\ now' = now + d
        /\ cache' = StoreFetched(cache, sheet, now + d)
        /\ call' = LoadRecord(force_refresh, TRUE, "", sheet)
    /\ prev' = Summary(call)

\* load_data fetching, pd.read_csv raises (lines 51-52, 56-60)
LoadFetchFail(force_refresh) ==
    /\ ~CacheValid(force_refresh, cache, now)
    /\ \E d \in 0..MaxFetchTime, e \in Failures :
        /\ now + d <= MaxTime
        /\ now' = now + d
        /\ cache' = AfterFailure(cache)
        /\ call' = LoadRecord(force_refresh, TRUE, e, FailureResult(cache, e))
    /\ prev' = Summary(call)

load_data ==
    \E force_refresh \in BOOLEAN :
        \/ LoadCached(force_refresh)
        \/ LoadFetchOk(force_refresh)
        \/ LoadFetchFail(force_refresh)

clear_cache ==
    /\ cache' = Cleared(cache)
    /\ call' = [op |-> "clear", at |-> now, pre |-> cache]
    /\ prev' = Summary(call)
    /\ UNCHANGED now

\* time passes between two calls
Tick ==
    /\ now < MaxTime
    /\ now' = now + 1
    /\ UNCHANGED <<cache, call, prev>>

\* datetime.now() is the local wall clock: it can be set back between calls
ClockSetBack ==
    /\ now > 0
    /\ now' = now - 1
    /\ UNCHANGED <<cache, call, prev>>

----------------------------------------------------------------------------
\* Result decoder                                          (stats.py:14-34)

MaxLen == 5    \* longest Result string enumerated exhaustively

\* characters Result strings are built from ("x" stands for any other letter)
Chars == {"A", "D", "+", "-", "0", "1", " ", "_", "x"}

Digits == {"0", "1", "2", "3", "4", "5", "6", "7", "8", "9"}

\* a str value, as the sequence of its characters
Str(s) == [str |-> s]

Draw == <<"D", "r", "a", "w">>

StringsUpTo(n) == UNION {[1..k -> Chars] : k \in 0..n}

\* longer Result strings, beyond the exhaustive bound
Probes ==
    {Draw, <<" ">> \o Draw \o <<" ">>, <<"d", "r", "a", "w">>, Draw \o <<"s">>,
     <<"A", "+", "2">>, <<"D", "+", "3">>, <<" ", "D", "+", "1", "2", " ">>,
     <<"A", "+", " ", "-", "1", "2", " ">>, <<"D", "+", "1", "_", "0", "_", "1">>}

\* the values a Result cell can hold: missing (NaN/None) or a string
ResultValues == {None} \cup {Str(s) : s \in StringsUpTo(MaxLen) \cup Probes}

IsSpace(c) == c = " "

RECURSIVE LStrip(_)
LStrip(s) == IF s # <<>> /\ IsSpace(Head(s)) THEN LStrip(Tail(s)) ELSE s

RECURSIVE RStrip(_)
RStrip(s) ==
    IF s # <<>> /\ IsSpace(s[Len(s)]) THEN RStrip(SubSeq(s, 1, Len(s) - 1)) ELSE s

\* str.strip()
Strip(s) == RStrip(LStrip(s))

\* str.startswith(p)
StartsWith(s, p) == Len(s) >= Len(p) /\ SubSeq(s, 1, Len(p)) = p

DigitValue(c) ==
    CASE c = "0" -> 0 [] c = "1" -> 1 [] c = "2" -> 2 [] c = "3" -> 3 [] c = "4" -> 4
      [] c = "5" -> 5 [] c = "6" -> 6 [] c = "7" -> 7 [] c = "8" -> 8 [] c = "9" -> 9

\* value of a digit string read in base 10, underscores skipped
RECURSIVE Base10(_, _)
Base10(s, acc) ==
    IF s = <<>> THEN acc
    ELSE IF Head(s) = "_" THEN Base10(Tail(s), acc)
    ELSE Base10(Tail(s), 10 * acc + DigitValue(Head(s)))

\* the digit part int() accepts: digits, single underscores between digits
DigitGroupOk(s) ==
    /\ s # <<>>
    /\ \A i \in 1..Len(s) : s[i] \in Digits \cup {"_"}
    /\ s[1] \in Digits /\ s[Len(s)] \in Digits
    /\ \A i \in 1..(Len(s) - 1) : ~(s[i] = "_" /\ s[i + 1] = "_")

\* int(s) of a str: surrounding whitespace and one leading sign are accepted;
\* ok = FALSE stands for ValueError
PyInt(s) ==
    LET t    == Strip(s)
        neg  == t # <<>> /\ Head(t) = "-"
        body == IF t # <<>> /\ Head(t) \in {"+", "-"} THEN Tail(t) ELSE t
    IN  IF DigitGroupOk(body)
        THEN [ok |-> TRUE, val |-> IF neg THEN -Base10(body, 0) ELSE Base10(body, 0)]
        ELSE [ok |-> FALSE, val |-> 0]

\* try: return sign * int(result[2:]) / except (ValueError, IndexError): return 0
\* (faulty variant: the sign of the prefix is dropped)
ParseSuffixUnsigned(s, sign) ==
    LET p == PyInt(SubSeq(s, 3, Len(s)))
    IN  IF p.ok THEN p.val ELSE 0

ParseSuffix(s, sign) ==
    LET p == PyInt(SubSeq(s, 3, Len(s)))
    IN  IF p.ok THEN sign * p.val ELSE 0

get_level_change_value(r) ==
    IF r = None THEN 0
    ELSE LET s == Strip(r.str)
         IN  IF s = Draw THEN 0
             ELSE IF StartsWith(s, <<"A", "+">>) THEN ParseSuffix(s, 1)
             ELSE IF StartsWith(s, <<"D", "+">>) THEN ParseSuffix(s, -1)
             ELSE 0

\* one call of get_level_change_value on the Result cell
Decode ==
    /\ decoded = NotRun
    /\ decoded' = [value |-> get_level_change_value(result)]
    /\ UNCHANGED result

----------------------------------------------------------------------------
\* Player stat aggregator               (constants.py:4-10, stats.py:67-118)

MaxRows == 2    \* longest table enumerated

ATTACKING_PLAYER_COLS == <<"A1", "A2", "A3", "A4", "A5">>
DEFENDING_PLAYER_COLS == <<"D1", "D2", "D3", "D4">>
ALL_PLAYER_COLS == ATTACKING_PLAYER_COLS \o DEFENDING_PLAYER_COLS
DEALER_COL == DEFENDING_PLAYER_COLS[1]

MIN_SAMPLE_SIZE == 5

\* DEFENDING_PLAYER_COLS[1:]
defending_other_columns == Tail(DEFENDING_PLAYER_COLS)

Range(f) == {f[i] : i \in DOMAIN f}

\* a player name, as a cell value
Name(n) == [name |-> n]

\* players statistics are asked for; W plays in no enumerated row
Players == <<Name("X"), Name("Y"), Name("W")>>

\* a number n/d in lowest terms, d > 0
RECURSIVE GCD(_, _)
GCD(a, b) == IF b = 0 THEN a ELSE GCD(b, a % b)

Abs(n) == IF n < 0 THEN -n ELSE n

Ratio(n, d) ==
    LET g == GCD(Abs(n), d) IN [num |-> n \div g, den |-> d \div g]

Number(k) == Ratio(k, 1)

\* the lineups enumerated: where X sits (on neither side, attacking first or
\* last, dealer, other defender, or entered on both sides) and where Y sits
XSeats == {{}, {"A1"}, {"A5"}, {"D1"}, {"D3"}, {"A1", "D3"}}
YSeats == {{}, {"D2"}}

Lineup(xs, ys) ==
    [c \in Range(ALL_PLAYER_COLS) |->
        IF c \in xs THEN Name("X") ELSE IF c \in ys THEN Name("Y") ELSE NaN]

PointsValues == {NaN, Number(3)}

RowResults == {Str(<<"A", "+", "2">>), Str(<<"D", "+", "1">>)}

\* one row of the game table
Row(lineup, points, res) ==
    lineup @@ ("Points" :> points) @@ ("Result" :> res)

Rows ==
    {Row(Lineup(xs, ys), pts, res) :
        xs \in XSeats, ys \in YSeats, pts \in PointsValues, res \in RowResults}

Tables == UNION {[1..n -> Rows] : n \in 0..MaxRows}

\* player_name in row[cols].values
InCols(row, cols, player) == \E i \in DOMAIN cols : row[cols[i]] = player

RECURSIVE SumSeq(_)
SumSeq(s) == IF s = <<>> THEN 0 ELSE Head(s) + SumSeq(Tail(s))

\* Series.mean(): missing values are skipped, NaN when nothing is left
Mean(values) ==
    LET present == SelectSeq(values, LAMBDA v : v # NaN)
    IN  IF present = <<>> THEN NaN
        ELSE Ratio(SumSeq([i \in DOMAIN present |-> present[i].num]), Len(present))

Column(frame, c) == [i \in DOMAIN frame |-> frame[i][c]]

\* frame['Points'].mean() if not frame.empty else 0
MeanPointsOrZero(frame) ==
    IF frame # <<>> THEN Mean(Column(frame, "Points")) ELSE Number(0)

\* (faulty variant of calculate_game_level_change: the defending side is
\* credited the attackers' level change unnegated)
calculate_game_level_change_unsigned(row, player) ==
    LET level_change == get_level_change_value(row["Result"])
    IN  IF InCols(row, ATTACKING_PLAYER_COLS, player) THEN level_change
        ELSE IF InCols(row, DEFENDING_PLAYER_COLS, player) THEN level_change
        ELSE 0

\* calculate_game_level_change (lines 93-101)
calculate_game_level_change(row, player) ==
    LET level_change == get_level_change_value(row["Result"])
    IN  IF InCols(row, ATTACKING_PLAYER_COLS, player) THEN level_change
        ELSE IF InCols(row, DEFENDING_PLAYER_COLS, player) THEN -level_change
        ELSE 0

\* the row subsets of calculate_player_stats (lines 70, 73, 78, 83, 88)
PlayerRows(frame, player) ==
    SelectSeq(frame, LAMBDA row : InCols(row, ALL_PLAYER_COLS, player))

\* (faulty variant of AttackingRows: any slot counts as attacking)
AttackingRowsAnySlot(df_player, player) ==
    SelectSeq(df_player, LAMBDA row : InCols(row, ALL_PLAYER_COLS, player))

AttackingRows(df_player, player) ==
    SelectSeq(df_player, LAMBDA row : InCols(row, ATTACKING_PLAYER_COLS, player))

DefendingRows(df_player, player) ==
    SelectSeq(df_player, LAMBDA row : InCols(row, DEFENDING_PLAYER_COLS, player))

DefendingOtherRows(df_player, player) ==
    SelectSeq(df_player, LAMBDA row : InCols(row, defending_other_columns, player))

DealerRows(df_player, player) ==
    SelectSeq(df_player, LAMBDA row : row[DEALER_COL] = player)

calculate_player_stats(player_name, frame) ==
    LET df_player                == PlayerRows(frame, player_name)
        df_attacking_games       == AttackingRows(df_player, player_name)
        df_defending_games       == DefendingRows(df_player, player_name)
        df_defending_other_games == DefendingOtherRows(df_player, player_name)
        df_defending_d1_games    == DealerRows(df_player, player_name)
        level_change ==
            [i \in DOMAIN df_player |->
                calculate_game_level_change(df_player[i], player_name)]
    IN  ("avg. collected when attacking" :> MeanPointsOrZero(df_attacking_games))
     @@ ("attacking sample size" :> Len(df_attacking_games))
     @@ ("avg. opponents collected when defending" :> MeanPointsOrZero(df_defending_games))
     @@ ("defending sample size" :> Len(df_defending_games))
     @@ ("avg. opponents collected defending (teammate)"
            :> MeanPointsOrZero(df_defending_other_games))
     @@ ("defending teammate sample size" :> Len(df_defending_other_games))
     @@ ("avg. opponents collected defending (dealer)"
            :> MeanPointsOrZero(df_defending_d1_games))
     @@ ("defending dealer sample size" :> Len(df_defending_d1_games))
     @@ ("avg. level change" :>
            IF df_player # <<>> THEN Ratio(SumSeq(level_change), Len(df_player))
            ELSE Number(0))
     @@ ("level change sample size" :> Len(df_player))

\* {p: calculate_player_stats(p, df) for p in players_list}   (app.py:31-32)
\* On a frame without rows (a deck partition no game falls in) the row-wise
\* apply of line 70 has no row to call the lambda on and returns an empty
\* float Series, not a boolean mask; indexing with it selects columns, none
\* of them, and line 73 then raises KeyError.  Whether the columns survive
\* is up to the pandas build, so both outcomes are kept.
CalculateAll ==
    /\ stats = NotRun
    /\ \/ stats' = [returned |->
                      [i \in DOMAIN Players |-> calculate_player_stats(Players[i], df)]]
       \/ /\ df = <<>>
          /\ stats' = [raised |-> "KeyError"]
    /\ UNCHANGED df

----------------------------------------------------------------------------
\* Teammate and opponent stats                        (stats.py:151-220)

\* the lineups enumerated for pairs: X attacking, dealer, other defender or
\* entered on both sides, Y attacking or defending
PairXSeats == {{}, {"A1"}, {"D1"}, {"D3"}, {"A1", "D3"}}
PairYSeats == {{}, {"A2"}, {"D2"}}

PairRows ==
    {Row(Lineup(xs, ys), Number(3), res) :
        xs \in PairXSeats, ys \in PairYSeats, res \in RowResults}

PairTables == UNION {[1..n -> PairRows] : n \in 0..MaxRows}

\* the min_games arguments tried: thresholds the enumerated tables reach,
\* and the default
MinGamesValues == {1, 2, MIN_SAMPLE_SIZE}

\* player_games (line 154)
player_games(frame, player_name) ==
    SelectSeq(frame, LAMBDA row : InCols(row, ALL_PLAYER_COLS, player_name))

\* (faulty variant of get_level_change: the defending side is credited the
\* attackers' level change unnegated)
get_level_change_unsigned(row, player) ==
    LET level_change == get_level_change_value(row["Result"])
    IN  IF InCols(row, ATTACKING_PLAYER_COLS, player) THEN level_change
        ELSE IF InCols(row, DEFENDING_PLAYER_COLS, player) THEN level_change
        ELSE 0

\* get_level_change (lines 159-167)
get_level_change(row, player) ==
    LET level_change == get_level_change_value(row["Result"])
    IN  IF InCols(row, ATTACKING_PLAYER_COLS, player) THEN level_change
        ELSE IF InCols(row, DEFENDING_PLAYER_COLS, player) THEN -level_change
        ELSE 0

\* all_players (lines 172-176): every name in the player's games but their own
all_players(games, player_name) ==
    {games[i][ALL_PLAYER_COLS[c]] : i \in DOMAIN games, c \in DOMAIN ALL_PLAYER_COLS}
        \ {NaN, player_name}

\* player_pos / other_pos (lines 185-191): the last column of ALL_PLAYER_COLS
\* that holds the name, as its index; 0 stands for None
Position(game, who) ==
    LET held == {c \in DOMAIN ALL_PLAYER_COLS : game[ALL_PLAYER_COLS[c]] = who}
    IN  IF held = {} THEN 0 ELSE CHOOSE c \in held : \A e \in held : e <= c

\* pos in ATTACKING_PLAYER_COLS (lines 194-195)
IsAttacking(pos) == ALL_PLAYER_COLS[pos] \in Range(ATTACKING_PLAYER_COLS)

\* (faulty variant of SameTeam: only two attackers count as teammates)
SameTeamAttackersOnly(player_pos, other_pos) ==
    IsAttacking(player_pos) /\ IsAttacking(other_pos)

\* player_attacking == other_attacking (line 200)
SameTeam(player_pos, other_pos) ==
    IsAttacking(player_pos) = IsAttacking(other_pos)

\* the games of lines 183-205 in which both names hold a position, on the
\* same team or not
PairGames(games, player_name, other_player, together) ==
    SelectSeq(games, LAMBDA game :
        /\ Position(game, player_name) # 0
        /\ Position(game, other_player) # 0
        /\ SameTeam(Position(game, player_name), Position(game, other_player))
              = together)

\* teammate_games / opponent_games (lines 180-205)
teammate_games(games, player_name, other_player) ==
    LET together == PairGames(games, player_name, other_player, TRUE)
    IN  [k \in DOMAIN together |-> get_level_change(together[k], player_name)]

opponent_games(games, player_name, other_player) ==
    LET against == PairGames(games, player_name, other_player, FALSE)
    IN  [k \in DOMAIN against |-> get_level_change(against[k], player_name)]

\* the entry of lines 209-212 and 215-218
PairEntry(levels) ==
       ("avg. level change" :> Ratio(SumSeq(levels), Len(levels)))
    @@ ("games" :> Len(levels))

\* calculate_teammate_opponent_stats; a player without games gets {}, {}
calculate_teammate_opponent_stats(player_name, frame, min_games) ==
    LET games  == player_games(frame, player_name)
        others == all_players(games, player_name)
        mates  == {o \in others : Len(teammate_games(games, player_name, o)) >= min_games}
        foes   == {o \in others : Len(opponent_games(games, player_name, o)) >= min_games}
    IN  [teammate_stats |->
            [o \in mates |-> PairEntry(teammate_games(games, player_name, o))],
         opponent_stats |->
            [o \in foes |-> PairEntry(opponent_games(games, player_name, o))]]

\* the two lists of each other player at the end of the loop of line 178
PairLists(player_name, frame) ==
    LET games == player_games(frame, player_name)
    IN  [o \in all_players(games, player_name) |->
            [teammate_games |-> teammate_games(games, player_name, o),
             opponent_games |-> opponent_games(games, player_name, o)]]

\* calculate_teammate_opponent_stats(chosen_player, df) for each player
\* (sections.py:411), with one min_games for all of them
CalculateInteractions ==
    /\ interaction = NotRun
    /\ \E min_games \in MinGamesValues :
          interaction' =
              [min_games |-> min_games,
               returned  |-> [i \in DOMAIN Players |->
                    calculate_teammate_opponent_stats(Players[i], df, min_games)],
               lists     |-> [i \in DOMAIN Players |-> PairLists(Players[i], df)]]
    /\ UNCHANGED df

----------------------------------------------------------------------------
\* Leaderboard builder                    (constants.py:10, stats.py:120-144)

MaxEntries == 3    \* most players in an enumerated stats mapping

\* (metric, sample_col, ascending) of lines 124-130
configs ==
    << [metric |-> "avg. collected when attacking",
        sample_col |-> "attacking sample size", ascending |-> FALSE],
       [metric |-> "avg. opponents collected when defending",
        sample_col |-> "defending sample size", ascending |-> TRUE],
       [metric |-> "avg. opponents collected defending (teammate)",
        sample_col |-> "defending teammate sample size", ascending |-> TRUE],
       [metric |-> "avg. opponents collected defending (dealer)",
        sample_col |-> "defending dealer sample size", ascending |-> TRUE],
       [metric |-> "avg. level change",
        sample_col |-> "level change sample size", ascending |-> FALSE] >>

\* the bundle calculate_player_stats returns for a player with n_att attacking
\* games and n_def defending games, n_d1 of them as dealer, averaging pts
\* points on either side and lc levels
Bundle(n_att, n_def, n_d1, pts, lc) ==
       ("avg. collected when attacking" :> IF n_att = 0 THEN Number(0) ELSE pts)
    @@ ("attacking sample size" :> n_att)
    @@ ("avg. opponents collected when defending" :> IF n_def = 0 THEN Number(0) ELSE pts)
    @@ ("defending sample size" :> n_def)
    @@ ("avg. opponents collected defending (teammate)"
           :> IF n_def - n_d1 = 0 THEN Number(0) ELSE pts)
    @@ ("defending teammate sample size" :> n_def - n_d1)
    @@ ("avg. opponents collected defending (dealer)"
           :> IF n_d1 = 0 THEN Number(0) ELSE pts)
    @@ ("defending dealer sample size" :> n_d1)
    @@ ("avg. level change" :> lc)
    @@ ("level change sample size" :> n_att + n_def)

\* the bundles enumerated: sample sizes on either side of MIN_SAMPLE_SIZE,
\* averages that tie, differ by less than a thousandth, or are missing
BoardBundles ==
    {Bundle(4, 0, 0, Number(3), Number(1))} \cup
    {Bundle(n[1], n[2], n[3], v[1], v[2]) :
        n \in {<<5, 0, 0>>, <<4, 5, 5>>, <<5, 6, 1>>},
        v \in {<<NaN, Number(0)>>, <<Ratio(1, 3), Ratio(-1, 2)>>,
               <<Ratio(3333, 10000), Number(1)>>}}

BoardNames == <<"P1", "P2", "P3", "P4", "P5", "P6">>

\* player_stats_dict, in insertion order
StatsDicts ==
    UNION {[1..n -> BoardBundles] : n \in 0..MaxEntries}

Less(a, b) == a.num * b.den < b.num * a.den

\* Series.round(3): to the nearest thousandth, halves to the even one
Round3(v) ==
    IF v = NaN THEN NaN
    ELSE LET q == (1000 * v.num) \div v.den
             r == (1000 * v.num) % v.den
             k == IF 2 * r < v.den THEN q
                  ELSE IF 2 * r > v.den THEN q + 1
                  ELSE IF q % 2 = 0 THEN q ELSE q + 1
         IN  Ratio(k, 1000)

\* df_stats[sample_col] >= MIN_SAMPLE_SIZE, as positions of df_stats
\* (faulty variant: strictly more than MIN_SAMPLE_SIZE)
QualifiesAbove(stats_dict, i, config) ==
    stats_dict[i][config.sample_col] > MIN_SAMPLE_SIZE

Qualifies(stats_dict, i, config) ==
    stats_dict[i][config.sample_col] >= MIN_SAMPLE_SIZE

Filtered(stats_dict, config) ==
    {i \in DOMAIN stats_dict : Qualifies(stats_dict, i, config)}

\* sort_values(by=metric, ascending=ascending): missing values last in their
\* original order; the default sort kind is not stable, so equal values come
\* in an order the build decides, given here by the priorities prio
Before(stats_dict, config, prio, i, j) ==
    LET a == stats_dict[i][config.metric]
        b == stats_dict[j][config.metric]
    IN  IF a = NaN /\ b = NaN THEN i < j
        ELSE IF a = NaN THEN FALSE
        ELSE IF b = NaN THEN TRUE
        ELSE IF a = b THEN prio[i] < prio[j]
        ELSE IF config.ascending THEN Less(a, b) ELSE Less(b, a)

SortValues(stats_dict, config, prio, rows) ==
    [k \in 1..Cardinality(rows) |->
        CHOOSE i \in rows :
            Cardinality({j \in rows : Before(stats_dict, config, prio, j, i)}) = k - 1]

\* (faulty variant of RankedTable: ranks numbered from 0, range(len(df_sorted)))
RankedTableFromZero(stats_dict, config, prio) ==
    LET df_sorted == SortValues(stats_dict, config, prio, Filtered(stats_dict, config))
    IN  [k \in DOMAIN df_sorted |->
               ("Rank" :> k - 1)
            @@ ("Player" :> BoardNames[df_sorted[k]])
            @@ (config.metric :> Round3(stats_dict[df_sorted[k]][config.metric]))
            @@ (config.sample_col :> stats_dict[df_sorted[k]][config.sample_col])]

\* the ranked table of one metric (lines 137-143)
RankedTable(stats_dict, config, prio) ==
    LET df_sorted == SortValues(stats_dict, config, prio, Filtered(stats_dict, config))
    IN  [k \in DOMAIN df_sorted |->
               ("Rank" :> k)
            @@ ("Player" :> BoardNames[df_sorted[k]])
            @@ (config.metric :> Round3(stats_dict[df_sorted[k]][config.metric]))
            @@ (config.sample_col :> stats_dict[df_sorted[k]][config.sample_col])]

\* leaderboard_tables: an empty mapping gives a frame without columns, and
\* df_stats[sample_col] raises KeyError
leaderboard_tables(stats_dict, prio) ==
    IF stats_dict = <<>> THEN [raised |-> "KeyError"]
    ELSE LET kept == {c \in DOMAIN configs : Filtered(stats_dict, configs[c]) # {}}
         IN  [returned |->
                [m \in {configs[c].metric : c \in kept} |->
                    RankedTable(stats_dict,
                                configs[CHOOSE c \in kept : configs[c].metric = m], prio)]]

BuildLeaderboards ==
    /\ results = NotRun
    /\ \E prio \in Permutations(DOMAIN player_stats_dict) :
          results' = leaderboard_tables(player_stats_dict, prio)
    /\ UNCHANGED player_stats_dict

----------------------------------------------------------------------------
\* Specifications

CacheIdle ==
    /\ cache = EmptyCache
    /\ now = 0
    /\ call = NoCall
    /\ prev = NoCall

DecodeIdle == result = None /\ decoded = NotRun
StatsIdle  == df = <<>> /\ stats = NotRun
PairIdle   == interaction = NotRun
BoardIdle  == player_stats_dict = <<>> /\ results = NotRun

\* the loader and its cache under any sequence of calls
Init ==
    /\ CacheIdle
    /\ DecodeIdle
    /\ StatsIdle
    /\ PairIdle
    /\ BoardIdle

Next ==
    \/ load_data /\ UNCHANGED <<decodeVars, statsVars, pairVars, boardVars>>
    \/ clear_cache /\ UNCHANGED <<decodeVars, statsVars, pairVars, boardVars>>
    \/ Tick /\ UNCHANGED <<decodeVars, statsVars, pairVars, boardVars>>
    \/ ClockSetBack /\ UNCHANGED <<decodeVars, statsVars, pairVars, boardVars>>

Spec == Init /\ [][Next]_vars

\* the result decoder applied to every Result value
InitDecode ==
    /\ CacheIdle
    /\ result \in ResultValues
    /\ decoded = NotRun
    /\ StatsIdle
    /\ PairIdle
    /\ BoardIdle

NextDecode == Decode /\ UNCHANGED <<cacheVars, statsVars, pairVars, boardVars>>

SpecDecode == InitDecode /\ [][NextDecode]_vars

\* the player stat aggregator applied to every table
InitStats ==
    /\ CacheIdle
    /\ DecodeIdle
    /\ df \in Tables
    /\ stats = NotRun
    /\ PairIdle
    /\ BoardIdle

NextStats == CalculateAll /\ UNCHANGED <<cacheVars, decodeVars, pairVars, boardVars>>

SpecStats == InitStats /\ [][NextStats]_vars

\* the interaction stats of every player on every table of PairTables
InitPairs ==
    /\ CacheIdle
    /\ DecodeIdle
    /\ df \in PairTables
    /\ stats = NotRun
    /\ PairIdle
    /\ BoardIdle

NextPairs ==
    CalculateInteractions /\ UNCHANGED <<cacheVars, decodeVars, stats, boardVars>>

SpecPairs == InitPairs /\ [][NextPairs]_vars

\* the leaderboard builder applied to every stats mapping
InitBoard ==
    /\ CacheIdle
    /\ DecodeIdle
    /\ StatsIdle
    /\ PairIdle
    /\ player_stats_dict \in StatsDicts
    /\ results = NotRun

NextBoard ==
    BuildLeaderboards /\ UNCHANGED <<cacheVars, decodeVars, statsVars, pairVars>>

SpecBoard == InitBoard /\ [][NextBoard]_vars

----------------------------------------------------------------------------
\* Properties of the loader and its cache (checked under Spec)

\* the last call was load_data(force_refresh=False) started on a cache entry
\* (data and timestamp both set) younger than cache_duration
FreshHit ==
    /\ call.op = "load"
    /\ ~call.force
    /\ call.pre.data # None
    /\ call.pre.timestamp # None
    /\ call.at - call.pre.timestamp.minute < cache_duration

\* C1: load(force_refresh=false) on an existing cache entry with
\* now - timestamp < 5 minutes returns the cached table, performs no fetch
\* and leaves the cache entry unchanged.
C1_FreshLoadServedFromCache ==
    FreshHit => /\ ~call.fetched
                /\ call.ret = call.pre.data
                /\ cache = call.pre

\* C1 witness: a load served from an entry one minute short of expiry
C1_Witness ==
    /\ FreshHit
    /\ call.at - call.pre.timestamp.minute = cache_duration - 1
    /\ ~call.fetched

\* two consecutive load(force_refresh=false) calls, nothing but time between
\* them, the second started less than cache_duration after the first, and
\* the first one fetched
TwoLoadsInWindow ==
    /\ prev.op = "load" /\ ~prev.force /\ prev.fetched
    /\ call.op = "load" /\ ~call.force
    /\ call.at - prev.at < cache_duration

\* C2 (as claimed): two consecutive load() calls within the freshness window
\* perform exactly one fetch in total, whether the first call's fetch
\* succeeded or failed.
C2_OneFetchWhateverOutcome ==
    TwoLoadsInWindow => ~call.fetched

\* C2 (amended): two consecutive load() calls within the freshness window
\* perform exactly one fetch in total when the first call's fetch succeeded.
C2_OneFetchAfterSuccess ==
    (TwoLoadsInWindow /\ prev.ok) => ~call.fetched

\* C2 witness: a fetching load that succeeded, followed by a load served
\* from the cache
C2_Witness ==
    /\ TwoLoadsInWindow /\ prev.ok
    /\ ~call.fetched
    /\ call.at > prev.at

\* C3: after clear_cache() the cache holds neither data nor timestamp, and
\* the next load (forced or not, however recent the previous fetch) attempts
\* a fetch.
C3_ClearForcesFetch ==
    /\ call.op = "clear" => cache = EmptyCache
    /\ (prev.op = "clear" /\ call.op = "load") => call.fetched

\* C3 witness: an entry younger than cache_duration was cleared and the
\* unforced load right after it fetched
C3_Witness ==
    /\ prev.op = "clear"
    /\ prev.pre.timestamp # None
    /\ call.op = "load" /\ ~call.force
    /\ call.at - prev.pre.timestamp.minute < cache_duration
    /\ call.fetched

\* the last call was a load whose fetch failed
FailedFetch == call.op = "load" /\ call.fetched /\ ~call.ok

\* C4: a load whose fetch fails while a table is cached returns that table,
\* whatever its age, and leaves data and timestamp of the entry unchanged.
C4_FailureServesStale ==
    (FailedFetch /\ call.pre.data # None) =>
        /\ call.ret = call.pre.data
        /\ cache = call.pre

\* C4 witness: an unforced load on an expired entry whose fetch failed
C4_Witness ==
    /\ FailedFetch /\ ~call.force
    /\ call.pre.data # None
    /\ call.at - call.pre.timestamp.minute >= cache_duration
    /\ call.ret = call.pre.data

\* C5: a load whose fetch fails with no cache entry returns the Error marker
\* (single column Error carrying the failure description); the marker is
\* never stored, the cache stays empty and the next load fetches again.
C5_FailureWithoutCache ==
    /\ (FailedFetch /\ call.pre.data = None) =>
          /\ call.ret = ErrorFrame(call.raised)
          /\ IsErrorMarker(call.ret)
          /\ cache = EmptyCache
    /\ cache.data # None => ~IsErrorMarker(cache.data)
    /\ (prev.op = "load" /\ prev.fetched /\ ~prev.ok /\ call.op = "load"
           /\ call.pre.data = None) => call.fetched

\* C5 witness: two loads in a row failed on an empty cache, the second
\* unforced
C5_Witness ==
    /\ prev.op = "load" /\ prev.fetched /\ ~prev.ok
    /\ FailedFetch /\ ~call.force
    /\ call.pre.data = None
    /\ IsErrorMarker(call.ret)

----------------------------------------------------------------------------
\* Properties of the result decoder (checked under SpecDecode)

\* the strings left when the spaces around s are removed (exactly one)
TrimsOf(s) ==
    {SubSeq(s, i, j) : <<i, j>> \in
        {ij \in (1..(Len(s) + 1)) \X (0..Len(s)) :
            /\ ij[2] >= ij[1] - 1
            /\ \A k \in 1..(ij[1] - 1) : s[k] = " "
            /\ \A k \in (ij[2] + 1)..Len(s) : s[k] = " "
            /\ ij[1] <= ij[2] => (s[ij[1]] # " " /\ s[ij[2]] # " ")
            /\ ij[1] > ij[2] => ij[1] = Len(s) + 1}}

\* the part of a string after its first two characters
Suffix(core) == SubSeq(core, 3, Len(core))

\* a non-empty sequence of decimal digits
PlainDigits(t) == t # <<>> /\ \A k \in 1..Len(t) : t[k] \in Digits

\* the number a plain digit sequence writes
RECURSIVE DecimalValue(_)
DecimalValue(t) ==
    IF t = <<>> THEN 0
    ELSE 10 * DecimalValue(SubSeq(t, 1, Len(t) - 1)) + DigitValue(t[Len(t)])

\* the texts Python's integer parse accepts: optional spaces, one optional
\* sign, digits with single underscores between them, optional spaces
IntLiteral(t) ==
    \E a \in 1..Len(t), b \in 1..Len(t) :
        /\ a <= b
        /\ \A k \in 1..(a - 1) : t[k] = " "
        /\ \A k \in (b + 1)..Len(t) : t[k] = " "
        /\ LET f == IF t[a] \in {"+", "-"} THEN a + 1 ELSE a
           IN  /\ f <= b
               /\ t[f] \in Digits /\ t[b] \in Digits
               /\ \A k \in f..b : t[k] \in Digits \cup {"_"}
               /\ \A k \in f..(b - 1) : ~(t[k] = "_" /\ t[k + 1] = "_")

HasPrefix(core, a, b) == Len(core) >= 2 /\ core[1] = a /\ core[2] = b

\* a trimmed string that is neither Draw nor a recognised prefix followed by
\* a text the integer parse accepts
Unparseable(core) ==
    /\ core # Draw
    /\ ~((HasPrefix(core, "A", "+") \/ HasPrefix(core, "D", "+")) /\ IntLiteral(Suffix(core)))

\* C6: for every non-negative n the decoder returns +n for "A+n" and -n for
\* "D+n"; it returns 0 for "Draw", for a missing value and for every string
\* that cannot be parsed; whitespace around the string is trimmed first.
C6_DecodeLevelChange ==
    decoded # NotRun =>
        IF result = None THEN decoded.value = 0
        ELSE \A core \in TrimsOf(result.str) :
            /\ core = Draw => decoded.value = 0
            /\ (HasPrefix(core, "A", "+") /\ PlainDigits(Suffix(core)))
                  => decoded.value = DecimalValue(Suffix(core))
            /\ (HasPrefix(core, "D", "+") /\ PlainDigits(Suffix(core)))
                  => decoded.value = -DecimalValue(Suffix(core))
            /\ Unparseable(core) => decoded.value = 0

\* C6 witness: the string " D+10" decoded to -10
C6_Witness ==
    /\ result = Str(<<" ", "D", "+", "1", "0">>)
    /\ decoded # NotRun
    /\ decoded.value = -10

\* C7: the sign is fixed by the prefix: "A+..." never decodes to a negative
\* value, "D+..." never to a positive one, plain digits decode to their
\* value (negated for D+), and a suffix that is not a plain digit sequence
\* decodes to 0.
C7_SignFixedByPrefix ==
    (decoded # NotRun /\ result # None) =>
        \A core \in TrimsOf(result.str) :
            /\ HasPrefix(core, "A", "+") =>
                  /\ decoded.value >= 0
                  /\ PlainDigits(Suffix(core)) => decoded.value = DecimalValue(Suffix(core))
            /\ HasPrefix(core, "D", "+") =>
                  /\ decoded.value <= 0
                  /\ PlainDigits(Suffix(core)) => decoded.value = -DecimalValue(Suffix(core))
            /\ ((HasPrefix(core, "A", "+") \/ HasPrefix(core, "D", "+"))
                   /\ ~PlainDigits(Suffix(core))) => decoded.value = 0

----------------------------------------------------------------------------
\* Properties of the player stat aggregator (checked under SpecStats)

SampleSizeKeys ==
    {"attacking sample size", "defending sample size",
     "defending teammate sample size", "defending dealer sample size",
     "level change sample size"}

MetricKeys ==
    {"avg. collected when attacking", "avg. opponents collected when defending",
     "avg. opponents collected defending (teammate)",
     "avg. opponents collected defending (dealer)", "avg. level change"}

\* the slots of row r that hold player p
SlotsOf(r, p) == {c \in Range(ALL_PLAYER_COLS) : df[r][c] = p}

\* the rows of df in which p participates, takes a defending slot, is dealer
ParticipationIdx(p) == {r \in DOMAIN df : SlotsOf(r, p) # {}}
DefendingIdx(p) == {r \in DOMAIN df : SlotsOf(r, p) \cap Range(DEFENDING_PLAYER_COLS) # {}}
DealerIdx(p) == {r \in DOMAIN df : df[r]["D1"] = p}

\* the data model's invariant on game records, for player p
OneSlotPerRecord(p) == \A r \in DOMAIN df : Cardinality(SlotsOf(r, p)) <= 1

\* C8: each of the five sample sizes is at most the number of rows in which
\* the player participates; on game records (a player in at most one slot
\* per record) attacking plus all-defending sample size is at most that
\* number; the dealer-defending rows are a subset of the all-defending rows.
C8_SampleSizesBounded ==
    (stats # NotRun /\ "returned" \in DOMAIN stats) =>
        \A i \in DOMAIN Players :
            LET p == Players[i]
                b == stats.returned[i]
                n == Cardinality(ParticipationIdx(p))
            IN  /\ \A k \in SampleSizeKeys : b[k] <= n
                /\ OneSlotPerRecord(p) =>
                      b["attacking sample size"] + b["defending sample size"] <= n
                /\ b["defending dealer sample size"] = Cardinality(DealerIdx(p))
                /\ b["defending sample size"] = Cardinality(DefendingIdx(p))
                /\ DealerIdx(p) \subseteq DefendingIdx(p)

\* C8 witness: X attacked in one row and was dealer in the other
C8_Witness ==
    /\ stats # NotRun /\ "returned" \in DOMAIN stats
    /\ OneSlotPerRecord(Name("X"))
    /\ stats.returned[1]["attacking sample size"] = 1
    /\ stats.returned[1]["defending dealer sample size"] = 1
    /\ stats.returned[1]["defending sample size"] = 1
    /\ stats.returned[1]["level change sample size"] = 2

\* C9: no metric value is missing/NaN, for every table, rows with a missing
\* Points value included; a metric over an empty row subset is 0 with sample
\* size 0.
C9_NoMissingMetric ==
    (stats # NotRun /\ "returned" \in DOMAIN stats) =>
        \A i \in DOMAIN Players :
            /\ \A k \in MetricKeys : stats.returned[i][k] # NaN
            /\ stats.returned[i]["attacking sample size"] = 0
                  => stats.returned[i]["avg. collected when attacking"] = Number(0)
            /\ stats.returned[i]["defending sample size"] = 0
                  => stats.returned[i]["avg. opponents collected when defending"] = Number(0)
            /\ stats.returned[i]["defending teammate sample size"] = 0
                  => stats.returned[i]["avg. opponents collected defending (teammate)"] = Number(0)
            /\ stats.returned[i]["defending dealer sample size"] = 0
                  => stats.returned[i]["avg. opponents collected defending (dealer)"] = Number(0)
            /\ stats.returned[i]["level change sample size"] = 0
                  => stats.returned[i]["avg. level change"] = Number(0)

\* the level change the Result values of the enumerated rows stand for
LevelOf(res) ==
    CASE res = Str(<<"A", "+", "2">>) -> 2
      [] res = Str(<<"D", "+", "1">>) -> -1

\* the personal level change of player p in row r of a game record: as
\* decoded for an attacker, negated for a defender
PersonalLevel(r, p) ==
    IF SlotsOf(r, p) = {} THEN 0
    ELSE IF SlotsOf(r, p) \subseteq Range(ATTACKING_PLAYER_COLS)
         THEN LevelOf(df[r]["Result"])
         ELSE -LevelOf(df[r]["Result"])

\* C15: the level change sample size is the number of rows the player
\* participates in, and the average level change is the mean over those
\* rows of the personal level change, +decode(Result) in an attacking slot
\* and -decode(Result) in a defending slot (0 when there is no such row).
C15_AverageLevelChange ==
    (stats # NotRun /\ "returned" \in DOMAIN stats) =>
        \A i \in DOMAIN Players :
            LET p == Players[i]
                b == stats.returned[i]
                n == Cardinality(ParticipationIdx(p))
                total == SumSeq([r \in DOMAIN df |-> PersonalLevel(r, p)])
            IN  /\ b["level change sample size"] = n
                /\ n = 0 => b["avg. level change"] = Number(0)
                /\ (n > 0 /\ OneSlotPerRecord(p))
                      => b["avg. level change"] = Ratio(total, n)

\* C15 witness: the one-row table with X attacking, Y defending, Result A+2
\* and 3 points: X has attacking sample size 1, 3 points on average and
\* level change +2, Y has level change -2
C15_Witness ==
    /\ stats # NotRun /\ "returned" \in DOMAIN stats
    /\ Len(df) = 1
    /\ SlotsOf(1, Name("X")) = {"A1"}
    /\ SlotsOf(1, Name("Y")) = {"D2"}
    /\ df[1]["Result"] = Str(<<"A", "+", "2">>)
    /\ df[1]["Points"] = Number(3)
    /\ stats.returned[1]["attacking sample size"] = 1
    /\ stats.returned[1]["avg. collected when attacking"] = Number(3)
    /\ stats.returned[1]["avg. level change"] = Number(2)
    /\ stats.returned[1]["level change sample size"] = 1
    /\ stats.returned[2]["avg. level change"] = Number(-2)
    /\ stats.returned[2]["defending sample size"] = 1

----------------------------------------------------------------------------
\* Properties of the teammate and opponent stats (checked under SpecPairs)

\* the rows of df in which both p and q participate
SharedIdx(p, q) == {r \in DOMAIN df : SlotsOf(r, p) # {} /\ SlotsOf(r, q) # {}}

\* p's slot in row r of a game record is an attacking one
OnAttack(r, p) == SlotsOf(r, p) \subseteq Range(ATTACKING_PLAYER_COLS)

\* the row numbers of S in table order
RowsInOrder(S) == SelectSeq([r \in DOMAIN df |-> r], LAMBDA r : r \in S)

\* C13: for distinct players P and Q, every row in which both participate
\* contributes P's signed level change to exactly one of the teammate group
\* and the opponent group of the pair, so the two counts add up to the number
\* of shared rows; on game records the teammate group takes the rows with
\* both on the same side and the opponent group the others.
C13_SharedRowInOneGroup ==
    interaction # NotRun =>
        \A i, j \in DOMAIN Players :
            i # j =>
                LET p      == Players[i]
                    q      == Players[j]
                    shared == SharedIdx(p, q)
                    lists  == interaction.lists[i]
                    same   == RowsInOrder({r \in shared : OnAttack(r, p) = OnAttack(r, q)})
                    cross  == RowsInOrder({r \in shared : OnAttack(r, p) # OnAttack(r, q)})
                IN  IF shared = {} THEN q \notin DOMAIN lists
                    ELSE /\ q \in DOMAIN lists
                         /\ Len(lists[q].teammate_games) + Len(lists[q].opponent_games)
                               = Cardinality(shared)
                         /\ (OneSlotPerRecord(p) /\ OneSlotPerRecord(q)) =>
                               /\ lists[q].teammate_games
                                     = [k \in DOMAIN same |-> PersonalLevel(same[k], p)]
                               /\ lists[q].opponent_games
                                     = [k \in DOMAIN cross |-> PersonalLevel(cross[k], p)]

\* C13 witness: X and Y defend together in row 1 and face each other in
\* row 2; X's lists for Y hold one level change each
C13_Witness ==
    /\ interaction # NotRun
    /\ Len(df) = 2
    /\ SlotsOf(1, Name("X")) = {"D1"} /\ SlotsOf(1, Name("Y")) = {"D2"}
    /\ SlotsOf(2, Name("X")) = {"A1"} /\ SlotsOf(2, Name("Y")) = {"D2"}
    /\ df[1]["Result"] = Str(<<"A", "+", "2">>)
    /\ df[2]["Result"] = Str(<<"D", "+", "1">>)
    /\ interaction.lists[1][Name("Y")].teammate_games = <<-2>>
    /\ interaction.lists[1][Name("Y")].opponent_games = <<-1>>

Neg(v) == Ratio(-v.num, v.den)

\* C17: on tables of game records (each player in at most one slot per row),
\* P's result has a teammate entry for Q iff Q's has one for P, with equal
\* game count and equal average level change; P's has an opponent entry for
\* Q iff Q's has one for P, with equal game count and negated average.
C17_InteractionSymmetry ==
    (interaction # NotRun /\ \A i \in DOMAIN Players : OneSlotPerRecord(Players[i])) =>
        \A i, j \in DOMAIN Players :
            i # j =>
                LET p      == Players[i]
                    q      == Players[j]
                    mine   == interaction.returned[i]
                    theirs == interaction.returned[j]
                IN  /\ q \in DOMAIN mine.teammate_stats <=> p \in DOMAIN theirs.teammate_stats
                    /\ q \in DOMAIN mine.teammate_stats =>
                          /\ mine.teammate_stats[q]["games"] = theirs.teammate_stats[p]["games"]
                          /\ mine.teammate_stats[q]["avg. level change"]
                                = theirs.teammate_stats[p]["avg. level change"]
                    /\ q \in DOMAIN mine.opponent_stats <=> p \in DOMAIN theirs.opponent_stats
                    /\ q \in DOMAIN mine.opponent_stats =>
                          /\ mine.opponent_stats[q]["games"] = theirs.opponent_stats[p]["games"]
                          /\ mine.opponent_stats[q]["avg. level change"]
                                = Neg(theirs.opponent_stats[p]["avg. level change"])

\* C17 witness: with min_games 1, X and Y attacked together once and faced
\* each other once; both have both entries, the opponent averages are +2
\* for X and -2 for Y
C17_Witness ==
    /\ interaction # NotRun
    /\ interaction.min_games = 1
    /\ \A i \in DOMAIN Players : OneSlotPerRecord(Players[i])
    /\ Name("Y") \in DOMAIN interaction.returned[1].teammate_stats
    /\ Name("X") \in DOMAIN interaction.returned[2].teammate_stats
    /\ interaction.returned[1].teammate_stats[Name("Y")]["games"] = 1
    /\ interaction.returned[2].teammate_stats[Name("X")]["games"] = 1
    /\ Name("Y") \in DOMAIN interaction.returned[1].opponent_stats
    /\ Name("X") \in DOMAIN interaction.returned[2].opponent_stats
    /\ interaction.returned[1].opponent_stats[Name("Y")]["avg. level change"] = Number(2)
    /\ interaction.returned[2].opponent_stats[Name("X")]["avg. level change"] = Number(-2)

----------------------------------------------------------------------------
\* Properties of the leaderboard builder (checked under SpecBoard)

\* the positions of player_stats_dict whose sample size for the metric of
\* config is at least 5
QualifyingFor(config) ==
    {i \in DOMAIN player_stats_dict : player_stats_dict[i][config.sample_col] >= 5}

\* C10: for each of the five metrics the ranked table holds exactly the
\* players whose sample size for that metric is >= 5, each once, with no
\* entry of sample size < 5; a metric no player qualifies for is absent from
\* the returned mapping.
C10_LeaderboardMembership ==
    (results # NotRun /\ "returned" \in DOMAIN results) =>
        \A c \in DOMAIN configs :
            LET config == configs[c]
                Q      == QualifyingFor(config)
                table  == results.returned[config.metric]
            IN  IF Q = {} THEN config.metric \notin DOMAIN results.returned
                ELSE /\ config.metric \in DOMAIN results.returned
                     /\ Len(table) = Cardinality(Q)
                     /\ {table[k]["Player"] : k \in DOMAIN table} = {BoardNames[i] : i \in Q}
                     /\ \A k \in DOMAIN table : table[k][config.sample_col] >= 5

\* C10 witness: three players, of whom only the second and third qualify for
\* the attacking table, and nobody qualifies for the dealer table
C10_Witness ==
    /\ results # NotRun /\ "returned" \in DOMAIN results
    /\ Len(player_stats_dict) = 3
    /\ QualifyingFor(configs[1]) = {2, 3}
    /\ Len(results.returned[configs[1].metric]) = 2
    /\ QualifyingFor(configs[4]) = {}
    /\ configs[4].metric \notin DOMAIN results.returned

\* the position in player_stats_dict of the player of a table row
PosOf(row) == CHOOSE i \in DOMAIN BoardNames : BoardNames[i] = row["Player"]

\* the metrics that have a ranked table in the returned mapping
RankedConfigs ==
    {c \in DOMAIN configs : configs[c].metric \in DOMAIN results.returned}

\* C11: in every ranked table with k entries the Rank values are exactly
\* 1, 2, ..., k in the order of the sorted rows, without gaps or duplicates,
\* also when several entries have equal metric values.
C11_RanksCountRows ==
    (results # NotRun /\ "returned" \in DOMAIN results) =>
        \A c \in RankedConfigs :
            LET table == results.returned[configs[c].metric]
            IN  /\ DOMAIN table = 1..Len(table)
                /\ \A k \in DOMAIN table : table[k]["Rank"] = k
                /\ {table[k]["Rank"] : k \in DOMAIN table} = 1..Len(table)

\* C11 witness: an attacking table of three entries, the first two with
\* equal metric values, ranked 1, 2, 3
C11_Witness ==
    /\ results # NotRun /\ "returned" \in DOMAIN results
    /\ configs[1].metric \in DOMAIN results.returned
    /\ LET table == results.returned[configs[1].metric]
       IN  /\ Len(table) = 3
           /\ table[1][configs[1].metric] = table[2][configs[1].metric]
           /\ table[1][configs[1].metric] # NaN
           /\ table[3][configs[1].metric] # table[2][configs[1].metric]
           /\ <<table[1]["Rank"], table[2]["Rank"], table[3]["Rank"]>> = <<1, 2, 3>>

\* a comes no later than b in the direction of the sort; a missing value
\* compares with nothing
InOrder(ascending, a, b) ==
    /\ a # NaN
    /\ b # NaN
    /\ IF ascending THEN ~Less(b, a) ELSE ~Less(a, b)

\* C12: in every ranked table the rows are ordered by metric value,
\* non-decreasing for the three defending metrics and non-increasing for
\* attacking points and level change, and the displayed values rounded to
\* three decimals are in the same order.
C12_RowsOrderedByMetric ==
    (results # NotRun /\ "returned" \in DOMAIN results) =>
        \A c \in RankedConfigs :
            LET config == configs[c]
                table  == results.returned[config.metric]
            IN  \A k \in 1..(Len(table) - 1) :
                    /\ InOrder(config.ascending,
                               player_stats_dict[PosOf(table[k])][config.metric],
                               player_stats_dict[PosOf(table[k + 1])][config.metric])
                    /\ InOrder(config.ascending,
                               table[k][config.metric], table[k + 1][config.metric])

\* C16: the sort is stable: entries with equal metric values keep the order
\* they have in the stats mapping, in ascending and in descending tables.
C16_TiesKeepInsertionOrder ==
    (results # NotRun /\ "returned" \in DOMAIN results) =>
        \A c \in RankedConfigs :
            LET config == configs[c]
                table  == results.returned[config.metric]
            IN  \A k, l \in DOMAIN table :
                    (/\ k < l
                     /\ player_stats_dict[PosOf(table[k])][config.metric]
                           = player_stats_dict[PosOf(table[l])][config.metric])
                    => PosOf(table[k]) < PosOf(table[l])

\* C14: no exception propagates out of calculate_player_stats,
\* calculate_teammate_opponent_stats or leaderboard_tables for any input, an
\* empty table, a player without rows and an empty stats mapping included:
\* every call made has returned.
C14_NoExceptionEscapes ==
    /\ stats # NotRun => "raised" \notin DOMAIN stats
    /\ interaction # NotRun => "raised" \notin DOMAIN interaction
    /\ results # NotRun => "raised" \notin DOMAIN results

====
